---------------------------- MODULE Spec2Model ----------------------------
(***************************************************************************)
(* Model of the movie/star REST API: the relational store (movies, stars, *)
(* play), the per-request session of main.get_db, the functions of        *)
(* crud.py and the request handlers of main.py.                            *)
(*                                                                         *)
(* A request runs in three steps: get_db opens a session, one handler runs *)
(* to its end (every crud call it makes included), get_db's finally block  *)
(* closes the session.                                                     *)
(***************************************************************************)
EXTENDS Integers, Sequences, FiniteSets, TLC

VARIABLES
    movies,        \* table movies: id -> [title, year, duration, id_director]
    stars,         \* table stars: id -> [name, birthdate]
    play,          \* table play: set of <<id_movie, id_actor>> rows
    nextMovieId,   \* auto-increment of movies.id
    nextStarId,    \* auto-increment of stars.id
    fk_enforced,   \* whether the store engine enforces the ForeignKey columns
    pc,            \* position of the request: "idle", "handler", "exit"
    session,       \* the request's session: "none", "open", "closed"
    tx,            \* the session's transaction: "none", "active", "committed", "rolledback"
    last           \* what the last handler did: [op, args, crud, out, ret]

vars == <<movies, stars, play, nextMovieId, nextStarId, fk_enforced,
          pc, session, tx, last>>

store == <<movies, stars, play, nextMovieId, nextStarId, fk_enforced>>

----------------------------------------------------------------------------
(* Bounds of the model *)

\* movies.id values the store hands out: 1..MaxMovies
MaxMovies == 2
\* stars.id values the store hands out: 1..MaxStars
MaxStars == 2
\* longest star id list of a replace-actors request
MaxListLen == 2
\* movies.id values handed out under SpecQuery
MaxQueryMovies == 3
\* stars.id values handed out under SpecUpdate and SpecSession
MaxFewStars == 1
\* movies.id values handed out under SpecSession
MaxFewMovies == 1

\* SQL NULL / Python None in an optional integer column or parameter
NULL == -1

\* ids a request may name: an id not yet handed out, or deleted, names nothing
MovieIds == 1..MaxMovies
StarIds == 1..MaxStars

----------------------------------------------------------------------------
(* Values the crud functions return *)

None == [kind |-> "None"]
Str(s) == [kind |-> "str", val |-> s]
List(seq) == [kind |-> "list", val |-> seq]

\* the database as one value
DB == [movies |-> movies, stars |-> stars, play |-> play,
       nextMovieId |-> nextMovieId, nextStarId |-> nextStarId,
       fk |-> fk_enforced]

\* Movie.director: the many-to-one relationship loads the star id_director names
Director(db, m) ==
    IF db.movies[m].id_director \in DOMAIN db.stars
    THEN db.movies[m].id_director ELSE NULL

\* Movie.actors: the many-to-many relationship joins play with stars
Actors(db, m) == {s \in DOMAIN db.stars : <<m, s>> \in db.play}

\* a Movie object as the session holds it
MovieVal(db, m) ==
    [kind |-> "movie", id |-> m,
     title |-> db.movies[m].title, year |-> db.movies[m].year,
     duration |-> db.movies[m].duration,
     id_director |-> db.movies[m].id_director,
     director |-> Director(db, m), actors |-> Actors(db, m)]

\* a Star object
StarVal(db, s) ==
    [kind |-> "star", id |-> s,
     name |-> db.stars[s].name, birthdate |-> db.stars[s].birthdate]

\* what a crud call leaves: the database, the returned value, the state of the
\* session's transaction, the exception raised ("none" when it returned)
Result(db, ret, t, exc) == [db |-> db, ret |-> ret, tx |-> t, exc |-> exc]

Remove(f, k) == [i \in DOMAIN f \ {k} |-> f[i]]

----------------------------------------------------------------------------
(* crud.py: Movie *)

\* mutant: the query joins Movie.director, a movie without one is not found
crud_get_movie_joined(db, movie_id) ==
    IF movie_id \in DOMAIN db.movies
       /\ db.movies[movie_id].id_director \in DOMAIN db.stars
    THEN Result(db, MovieVal(db, movie_id), "active", "none")
    ELSE Result(db, None, "active", "none")

crud_get_movie(db, movie_id) ==
    IF movie_id \notin DOMAIN db.movies
    THEN Result(db, None, "active", "none")
    ELSE Result(db, MovieVal(db, movie_id), "active", "none")

crud_create_movie(db, title, year, duration) ==
    LET id == db.nextMovieId
        db2 == [db EXCEPT !.movies = db.movies @@
                    (id :> [title |-> title, year |-> year,
                            duration |-> duration, id_director |-> NULL]),
                          !.nextMovieId = id + 1]
    IN  \* commit, then refresh reads the row again
        Result(db2, MovieVal(db2, id), "active", "none")

\* mutant: the duration is not copied
crud_update_movie_no_duration(db, id, title, year, duration) ==
    IF id \in DOMAIN db.movies
    THEN LET db2 == [db EXCEPT !.movies[id].title = title,
                               !.movies[id].year = year]
         IN  Result(db2, MovieVal(db2, id), "committed", "none")
    ELSE Result(db, None, "active", "none")

crud_update_movie(db, id, title, year, duration) ==
    IF id \in DOMAIN db.movies
    THEN LET db2 == [db EXCEPT !.movies[id].title = title,
                               !.movies[id].year = year,
                               !.movies[id].duration = duration]
         IN  Result(db2, MovieVal(db2, id), "committed", "none")
    ELSE Result(db, None, "active", "none")

\* db.delete(db_movie): the unit of work deletes the play rows of the actors
\* the relationship loaded, then the movies row
crud_delete_movie(db, movie_id) ==
    IF movie_id \in DOMAIN db.movies
    THEN LET db2 == [db EXCEPT
                       !.movies = Remove(db.movies, movie_id),
                       !.play = db.play \ {<<movie_id, s>> : s \in Actors(db, movie_id)}]
         IN  Result(db2, MovieVal(db, movie_id), "committed", "none")
    ELSE Result(db, None, "active", "none")

----------------------------------------------------------------------------
(* crud.py: Star *)

crud_get_star(db, star_id) ==
    IF star_id \notin DOMAIN db.stars
    THEN Result(db, None, "active", "none")
    ELSE Result(db, StarVal(db, star_id), "active", "none")

crud_create_star(db, name, birthdate) ==
    LET id == db.nextStarId
        db2 == [db EXCEPT !.stars = db.stars @@
                    (id :> [name |-> name, birthdate |-> birthdate]),
                          !.nextStarId = id + 1]
    IN  Result(db2, StarVal(db2, id), "active", "none")

crud_update_star(db, id, name, birthdate) ==
    IF id \in DOMAIN db.stars
    THEN LET db2 == [db EXCEPT !.stars[id].name = name,
                               !.stars[id].birthdate = birthdate]
         IN  Result(db2, StarVal(db2, id), "committed", "none")
    ELSE Result(db, None, "active", "none")

\* rows of movies and play that name the star in a ForeignKey column
Referenced(db, star_id) ==
    \/ \E m \in DOMAIN db.movies : db.movies[m].id_director = star_id
    \/ \E r \in db.play : r[2] = star_id

\* db.delete(db_star) issues DELETE FROM stars only: Star has no relationship
\* to movies or play.  A store that enforces the foreign keys rejects the
\* DELETE at commit (IntegrityError, the flush rolls the transaction back);
\* a store that does not leaves the referencing rows in place.
crud_delete_star(db, star_id) ==
    IF star_id \in DOMAIN db.stars
    THEN IF db.fk /\ Referenced(db, star_id)
         THEN Result(db, None, "rolledback", "IntegrityError")
         ELSE Result([db EXCEPT !.stars = Remove(db.stars, star_id)],
                     StarVal(db, star_id), "committed", "none")
    ELSE Result(db, None, "active", "none")

----------------------------------------------------------------------------
(* crud.py: relationships *)

\* mutant: the star is tested before the movie
crud_update_movie_director_star_first(db, movie_id, director_id) ==
    LET db_movie == crud_get_movie(db, movie_id).ret
        db_star == crud_get_star(db, director_id).ret
    IN  IF db_star = None THEN Result(db, Str("error_s"), "active", "none")
        ELSE IF db_movie = None THEN Result(db, Str("error_m"), "active", "none")
        ELSE LET db2 == [db EXCEPT !.movies[movie_id].id_director = director_id]
             IN  Result(db2, MovieVal(db2, movie_id), "committed", "none")

crud_update_movie_director(db, movie_id, director_id) ==
    LET db_movie == crud_get_movie(db, movie_id).ret
        db_star == crud_get_star(db, director_id).ret
    IN  IF db_movie = None THEN Result(db, Str("error_m"), "active", "none")
        ELSE IF db_star = None THEN Result(db, Str("error_s"), "active", "none")
        ELSE LET db2 == [db EXCEPT !.movies[movie_id].id_director = director_id]
             IN  Result(db2, MovieVal(db2, movie_id), "committed", "none")

\* the unit of work inserts a play row for each star the collection gained
crud_add_movie_actor(db, movie_id, star_id) ==
    LET db_movie == crud_get_movie(db, movie_id).ret
        db_star == crud_get_star(db, star_id).ret
    IN  IF db_movie = None THEN Result(db, Str("error_m"), "active", "none")
        ELSE IF db_star = None THEN Result(db, Str("error_s"), "active", "none")
        ELSE LET db2 == [db EXCEPT !.play = db.play \cup {<<movie_id, star_id>>}]
             IN  Result(db2, MovieVal(db2, movie_id), "active", "none")

\* Star.id.in_(star_ids)
StarsIn(db, star_ids) ==
    {s \in DOMAIN db.stars : \E i \in 1..Len(star_ids) : star_ids[i] = s}

\* mutant: the stars are appended to the collection, none is removed
crud_update_movie_actors_append(db, movie_id, star_ids) ==
    LET db_movie == crud_get_movie(db, movie_id).ret
        db_actors == StarsIn(db, star_ids)
    IN  IF db_movie = None THEN Result(db, None, "active", "none")
        ELSE LET db2 == [db EXCEPT !.play =
                            db.play \cup {<<movie_id, s>> : s \in db_actors}]
             IN  Result(db2, MovieVal(db2, movie_id), "active", "none")

\* db_movie.actors = db_actors: the unit of work deletes the play rows of the
\* stars the loaded collection lost and inserts those of the stars it gained
crud_update_movie_actors(db, movie_id, star_ids) ==
    LET db_movie == crud_get_movie(db, movie_id).ret
        db_actors == StarsIn(db, star_ids)
    IN  IF db_movie = None THEN Result(db, None, "active", "none")
        ELSE LET old == Actors(db, movie_id)
                 db2 == [db EXCEPT !.play =
                            (db.play \ {<<movie_id, s>> : s \in old \ db_actors})
                            \cup {<<movie_id, s>> : s \in db_actors}]
             IN  Result(db2, MovieVal(db2, movie_id), "active", "none")

\* query(Movie).filter(id == movie_id).join(Movie.director).first() is None
\* when no movie row joins a star row; .director is then read from None
crud_get_director_by_id_movie(db, movie_id) ==
    LET joined == {m \in DOMAIN db.movies :
                      m = movie_id /\ db.movies[m].id_director \in DOMAIN db.stars}
    IN  IF joined = {}
        THEN Result(db, None, "active", "AttributeError")
        ELSE Result(db, StarVal(db, db.movies[movie_id].id_director), "active", "none")

----------------------------------------------------------------------------
(* crud.py: queries *)

\* ORDER BY: the sequences that list every element of S once, in ascending
\* (descending) order of the column; the store orders equal keys as it likes
RECURSIVE OrderBy(_, _, _)
OrderBy(S, column, descending) ==
    IF S = {} THEN {<<>>}
    ELSE LET first == {x \in S : \A y \in S :
                          IF descending THEN x[column] >= y[column]
                                        ELSE x[column] <= y[column]}
         IN  UNION {{<<x>> \o q : q \in OrderBy(S \ {x}, column, descending)} :
                      x \in first}

\* mutant: the bounds of the two-sided range are exclusive
crud_get_movies_by_range_year_exclusive(db, year_min, year_max) ==
    LET all == {MovieVal(db, m) : m \in DOMAIN db.movies}
    IN  IF year_min = NULL /\ year_max = NULL THEN {None}
        ELSE IF year_min = NULL
        THEN {List(q) : q \in OrderBy({v \in all : v.year <= year_max}, "year", TRUE)}
        ELSE IF year_max = NULL
        THEN {List(q) : q \in OrderBy({v \in all : v.year >= year_min}, "year", FALSE)}
        ELSE {List(q) : q \in OrderBy({v \in all : v.year > year_min /\ v.year < year_max},
                                      "year", FALSE)}

\* the values get_movies_by_range_year may return
crud_get_movies_by_range_year(db, year_min, year_max) ==
    LET all == {MovieVal(db, m) : m \in DOMAIN db.movies}
    IN  IF year_min = NULL /\ year_max = NULL THEN {None}
        ELSE IF year_min = NULL
        THEN {List(q) : q \in OrderBy({v \in all : v.year <= year_max}, "year", TRUE)}
        ELSE IF year_max = NULL
        THEN {List(q) : q \in OrderBy({v \in all : v.year >= year_min}, "year", FALSE)}
        ELSE {List(q) : q \in OrderBy({v \in all : v.year >= year_min /\ v.year <= year_max},
                                      "year", FALSE)}

RECURSIVE SumOf(_)
SumOf(S) == IF S = {} THEN 0
            ELSE LET x == CHOOSE x \in S : TRUE IN x[2] + SumOf(S \ {x})

MinOf(S) == CHOOSE x \in S : \A y \in S : x <= y
MaxOf(S) == CHOOSE x \in S : \A y \in S : x >= y

RECURSIVE Gcd(_, _)
Gcd(a, b) == IF b = 0 THEN a ELSE Gcd(b, a % b)

\* a rational in lowest terms
Ratio(num, den) == LET g == Gcd(num, den) IN <<num \div g, den \div g>>

\* mutant: avg divides by count(*), the rows without a duration included
GroupRow_avg_over_rows(year, rows) ==
    LET vals == {r \in rows : r[2] # NULL}
        durs == {r[2] : r \in vals}
    IN  [year |-> year,
         movie_count |-> Cardinality(rows),
         min_duration |-> IF vals = {} THEN NULL ELSE MinOf(durs),
         max_duration |-> IF vals = {} THEN NULL ELSE MaxOf(durs),
         avg_duration |-> IF vals = {} THEN <<>>
                          ELSE Ratio(SumOf(vals), Cardinality(rows))]

\* SQL aggregates over the rows <<id, duration>> of one group: count(*) counts
\* every row; min, max and avg skip NULL and are NULL over no value
GroupRow(year, rows) ==
    LET vals == {r \in rows : r[2] # NULL}
        durs == {r[2] : r \in vals}
    IN  [year |-> year,
         movie_count |-> Cardinality(rows),
         min_duration |-> IF vals = {} THEN NULL ELSE MinOf(durs),
         max_duration |-> IF vals = {} THEN NULL ELSE MaxOf(durs),
         avg_duration |-> IF vals = {} THEN <<>>
                          ELSE Ratio(SumOf(vals), Cardinality(vals))]

RECURSIVE AscendingYears(_)
AscendingYears(Y) ==
    IF Y = {} THEN <<>>
    ELSE LET y == MinOf(Y) IN <<y>> \o AscendingYears(Y \ {y})

crud_get_count_movies_by_year(db) ==
    LET years == AscendingYears({db.movies[m].year : m \in DOMAIN db.movies})
    IN  List([i \in 1..Len(years) |->
                GroupRow(years[i],
                         {<<m, db.movies[m].duration>> :
                             m \in {k \in DOMAIN db.movies : db.movies[k].year = years[i]}})])

\* the movies rows that join play and stars for one star
MoviesOfActor(db, s) == {m \in DOMAIN db.movies : <<m, s>> \in db.play}

\* the values get_stats_movie_by_actor may return
crud_get_stats_movie_by_actor(db, min_count) ==
    LET rows == {[actor |-> StarVal(db, s),
                  movie_count |-> Cardinality(MoviesOfActor(db, s)),
                  year_first_movie |-> MinOf({db.movies[m].year : m \in MoviesOfActor(db, s)}),
                  year_last_movie |-> MaxOf({db.movies[m].year : m \in MoviesOfActor(db, s)})] :
                 s \in {a \in DOMAIN db.stars :
                          /\ MoviesOfActor(db, a) # {}
                          /\ Cardinality(MoviesOfActor(db, a)) >= min_count}}
    IN  {List(q) : q \in OrderBy(rows, "movie_count", TRUE)}

----------------------------------------------------------------------------
(* main.py: the session dependency and the handlers *)

\* the handler's outcome: it returned ret, raised HTTPException(404), or let
\* an exception of the crud call through
Returned(op, args, r, ret) ==
    [op |-> op, args |-> args, crud |-> r.ret, out |-> "return", ret |-> ret]
Raised404(op, args, r) ==
    [op |-> op, args |-> args, crud |-> r.ret, out |-> "HTTPException", ret |-> None]
Failed(op, args, r) ==
    [op |-> op, args |-> args, crud |-> None, out |-> r.exc, ret |-> None]

NoRequest == [op |-> "none", args |-> <<>>, crud |-> None, out |-> "none", ret |-> None]

\* the handler ends: the store is what the crud calls left
Finish(r, outcome) ==
    /\ pc = "handler"
    /\ movies' = r.db.movies
    /\ stars' = r.db.stars
    /\ play' = r.db.play
    /\ nextMovieId' = r.db.nextMovieId
    /\ nextStarId' = r.db.nextStarId
    /\ tx' = r.tx
    /\ last' = outcome
    /\ pc' = "exit"
    /\ UNCHANGED <<fk_enforced, session>>

\* get_db up to its yield: db = SessionLocal()
get_db_enter ==
    /\ pc = "idle"
    /\ session' = "open"
    /\ tx' = "none"
    /\ last' = NoRequest
    /\ pc' = "handler"
    /\ UNCHANGED store

\* mutant: no finally, the session is closed only when the handler returned
get_db_exit_no_finally ==
    /\ pc = "exit"
    /\ session' = IF last.out = "return" THEN "closed" ELSE session
    /\ tx' = IF last.out = "return" /\ tx = "active" THEN "rolledback" ELSE tx
    /\ pc' = "idle"
    /\ last' = [NoRequest EXCEPT !.out = last.out]
    /\ UNCHANGED store

\* get_db's finally: db.close() rolls back a transaction in progress and
\* releases the connection.  The response is gone; only the way the handler
\* ended is remembered.
get_db_exit ==
    /\ pc = "exit"
    /\ session' = "closed"
    /\ tx' = IF tx = "active" THEN "rolledback" ELSE tx
    /\ pc' = "idle"
    /\ last' = [NoRequest EXCEPT !.out = last.out]
    /\ UNCHANGED store

read_movie(movie_id) ==
    LET r == crud_get_movie(DB, movie_id)
        args == <<movie_id>>
    IN  IF r.ret = None
        THEN Finish(r, Raised404("read_movie", args, r))
        ELSE Finish(r, Returned("read_movie", args, r, r.ret))

create_movie(title, year, duration) ==
    LET r == crud_create_movie(DB, title, year, duration)
    IN  Finish(r, Returned("create_movie", <<title, year, duration>>, r, r.ret))

update_movie(id, title, year, duration) ==
    LET r == crud_update_movie(DB, id, title, year, duration)
    IN  Finish(r, Returned("update_movie", <<id, title, year, duration>>, r, r.ret))

delete_movie(movie_id) ==
    LET r == crud_delete_movie(DB, movie_id)
    IN  Finish(r, Returned("delete_movie", <<movie_id>>, r, r.ret))

read_star(star_id) ==
    LET r == crud_get_star(DB, star_id)
        args == <<star_id>>
    IN  IF r.ret = None
        THEN Finish(r, Raised404("read_star", args, r))
        ELSE Finish(r, Returned("read_star", args, r, r.ret))

create_star(name, birthdate) ==
    LET r == crud_create_star(DB, name, birthdate)
    IN  Finish(r, Returned("create_star", <<name, birthdate>>, r, r.ret))

update_star(id, name, birthdate) ==
    LET r == crud_update_star(DB, id, name, birthdate)
    IN  Finish(r, Returned("update_star", <<id, name, birthdate>>, r, r.ret))

\* the handler calls crud.delete_star, tests the function delete_star (never
\* None) instead of deleted_star, and returns a second crud.delete_star call,
\* which runs in a new transaction of the same session
delete_star(star_id) ==
    LET r1 == crud_delete_star(DB, star_id)
        r2 == crud_delete_star(r1.db, star_id)
        args == <<star_id>>
    IN  IF r1.exc # "none"
        THEN Finish(r1, Failed("delete_star", args, r1))
        ELSE Finish(r2, Returned("delete_star", args, r1, r2.ret))

\* db_movie is "error_m": both literals are the one interned string
update_movie_director(mid, sid) ==
    LET r == crud_update_movie_director(DB, mid, sid)
        args == <<mid, sid>>
    IN  IF r.ret = Str("error_m") \/ r.ret = Str("error_s")
        THEN Finish(r, Raised404("update_movie_director", args, r))
        ELSE Finish(r, Returned("update_movie_director", args, r, r.ret))

add_movie_actor(mid, sid) ==
    LET r == crud_add_movie_actor(DB, mid, sid)
        args == <<mid, sid>>
    IN  IF r.ret = Str("error_m") \/ r.ret = Str("error_s")
        THEN Finish(r, Raised404("add_movie_actor", args, r))
        ELSE Finish(r, Returned("add_movie_actor", args, r, r.ret))

update_movie_actors(mid, sids) ==
    LET r == crud_update_movie_actors(DB, mid, sids)
        args == <<mid, sids>>
    IN  IF r.ret = None
        THEN Finish(r, Raised404("update_movie_actors", args, r))
        ELSE Finish(r, Returned("update_movie_actors", args, r, r.ret))

get_director_by_id_movie(movie_id) ==
    LET r == crud_get_director_by_id_movie(DB, movie_id)
        args == <<movie_id>>
    IN  IF r.exc # "none"
        THEN Finish(r, Failed("get_director_by_id_movie", args, r))
        ELSE IF r.ret = None
        THEN Finish(r, Raised404("get_director_by_id_movie", args, r))
        ELSE Finish(r, Returned("get_director_by_id_movie", args, r, r.ret))

get_movies_by_range_year(ymin, ymax) ==
    \E ret \in crud_get_movies_by_range_year(DB, ymin, ymax) :
        LET r == Result(DB, ret, "active", "none")
        IN  Finish(r, Returned("get_movies_by_range_year", <<ymin, ymax>>, r, ret))

read_count_movies_by_year ==
    LET r == Result(DB, crud_get_count_movies_by_year(DB), "active", "none")
    IN  Finish(r, Returned("read_count_movies_by_year", <<>>, r, r.ret))

read_stats_movie_by_actor(minc) ==
    \E ret \in crud_get_stats_movie_by_actor(DB, minc) :
        LET r == Result(DB, ret, "active", "none")
        IN  IF ret = None
            THEN Finish(r, Raised404("read_stats_movie_by_actor", <<minc>>, r))
            ELSE Finish(r, Returned("read_stats_movie_by_actor", <<minc>>, r, ret))

----------------------------------------------------------------------------
(* Specifications *)

Init ==
    /\ movies = <<>>
    /\ stars = <<>>
    /\ play = {}
    /\ nextMovieId = 1
    /\ nextStarId = 1
    /\ fk_enforced \in BOOLEAN
    /\ pc = "idle"
    /\ session = "none"
    /\ tx = "none"
    /\ last = NoRequest

\* inputs of the requests
Titles == {"t1"}
Years == {1999, 2001}
Durations == {NULL}
Names == {"n1"}
Birthdates == {NULL}
MinCounts == {1, 2}
StarIdLists == UNION {[1..n -> StarIds] : n \in 0..MaxListLen}

\* Spec: movies, stars and their relationships
Next ==
    \/ get_db_enter
    \/ get_db_exit
    \/ \E m \in MovieIds : read_movie(m)
    \/ nextMovieId <= MaxMovies /\
       \E t \in Titles, y \in Years, d \in Durations : create_movie(t, y, d)
    \/ \E m \in MovieIds, t \in Titles, y \in Years, d \in Durations : update_movie(m, t, y, d)
    \/ \E m \in MovieIds : delete_movie(m)
    \/ \E s \in StarIds : read_star(s)
    \/ nextStarId <= MaxStars /\
       \E n \in Names, b \in Birthdates : create_star(n, b)
    \/ \E s \in StarIds, n \in Names, b \in Birthdates : update_star(s, n, b)
    \/ \E s \in StarIds : delete_star(s)
    \/ \E m \in MovieIds, s \in StarIds : update_movie_director(m, s)
    \/ \E m \in MovieIds, s \in StarIds : add_movie_actor(m, s)
    \/ \E m \in MovieIds, l \in StarIdLists : update_movie_actors(m, l)
    \/ \E m \in MovieIds : get_director_by_id_movie(m)
    \/ \E c \in MinCounts : read_stats_movie_by_actor(c)

Spec == Init /\ [][Next]_vars

\* SpecQuery: the year queries over movies of several years and durations
QueryMovieIds == 1..MaxQueryMovies
QueryDurations == {NULL, 90, 110}
QueryYearBounds == {NULL, 1999, 2000, 2001}

NextQuery ==
    \/ get_db_enter
    \/ get_db_exit
    \/ nextMovieId <= MaxQueryMovies /\
       \E t \in Titles, y \in Years, d \in QueryDurations : create_movie(t, y, d)
    \/ \E m \in QueryMovieIds : delete_movie(m)
    \/ \E lo \in QueryYearBounds, hi \in QueryYearBounds : get_movies_by_range_year(lo, hi)
    \/ read_count_movies_by_year

SpecQuery == Init /\ [][NextQuery]_vars

\* SpecUpdate: updates of movies that have a director and actors
FewStarIds == 1..MaxFewStars
UpdateInputs == {<<"t1", 1999, NULL>>, <<"t2", 2001, 90>>}

NextUpdate ==
    \/ get_db_enter
    \/ get_db_exit
    \/ \E m \in MovieIds : read_movie(m)
    \/ nextMovieId <= MaxMovies /\
       \E i \in UpdateInputs : create_movie(i[1], i[2], i[3])
    \/ \E m \in MovieIds, i \in UpdateInputs : update_movie(m, i[1], i[2], i[3])
    \/ \E m \in MovieIds : delete_movie(m)
    \/ nextStarId <= MaxFewStars /\
       \E n \in Names, b \in Birthdates : create_star(n, b)
    \/ \E m \in MovieIds, s \in FewStarIds : update_movie_director(m, s)
    \/ \E m \in MovieIds, s \in FewStarIds : add_movie_actor(m, s)

SpecUpdate == Init /\ [][NextUpdate]_vars

\* SpecSession: every handler, with the scheduling the framework gives a
\* request: the handler runs to its end and the dependency's exit code runs
FewMovieIds == 1..MaxFewMovies
FewStarIdLists == UNION {[1..n -> FewStarIds] : n \in 0..MaxListLen}

Handlers ==
    \/ \E m \in FewMovieIds : read_movie(m)
    \/ nextMovieId <= MaxFewMovies /\
       \E t \in Titles, y \in Years, d \in Durations : create_movie(t, y, d)
    \/ \E m \in FewMovieIds, t \in Titles, y \in Years, d \in Durations : update_movie(m, t, y, d)
    \/ \E m \in FewMovieIds : delete_movie(m)
    \/ \E s \in FewStarIds : read_star(s)
    \/ nextStarId <= MaxFewStars /\
       \E n \in Names, b \in Birthdates : create_star(n, b)
    \/ \E s \in FewStarIds, n \in Names, b \in Birthdates : update_star(s, n, b)
    \/ \E s \in FewStarIds : delete_star(s)
    \/ \E m \in FewMovieIds, s \in FewStarIds : update_movie_director(m, s)
    \/ \E m \in FewMovieIds, s \in FewStarIds : add_movie_actor(m, s)
    \/ \E m \in FewMovieIds, l \in FewStarIdLists : update_movie_actors(m, l)
    \/ \E m \in FewMovieIds : get_director_by_id_movie(m)
    \/ \E lo \in QueryYearBounds, hi \in QueryYearBounds : get_movies_by_range_year(lo, hi)
    \/ read_count_movies_by_year
    \/ \E c \in MinCounts : read_stats_movie_by_actor(c)

NextSession ==
    \/ get_db_enter
    \/ Handlers
    \/ get_db_exit

SpecSession ==
    Init /\ [][NextSession]_vars /\ WF_vars(Handlers) /\ WF_vars(get_db_exit)

----------------------------------------------------------------------------
(* Claims *)

\* the handler that has just ended
Ended(op) == pc = "handler" /\ last'.op = op

StoreUnchanged == UNCHANGED store

\* C1: setDirector(movieId, starId) returns "error_m" whenever the movie does
\* not exist (the star missing too or not), "error_s" when the movie exists
\* and the star does not, and changes nothing in both cases; when both exist
\* it sets that movie's director to the star, leaves every other movie's
\* director alone, and returns the movie.
C1_SetDirector ==
    [][Ended("update_movie_director") =>
        LET m == last'.args[1]
            s == last'.args[2]
        IN  IF m \notin DOMAIN movies
            THEN last'.crud = Str("error_m") /\ StoreUnchanged
            ELSE IF s \notin DOMAIN stars
            THEN last'.crud = Str("error_s") /\ StoreUnchanged
            ELSE /\ DOMAIN movies' = DOMAIN movies
                 /\ movies'[m].id_director = s
                 /\ \A k \in DOMAIN movies \ {m} : movies'[k] = movies[k]
                 /\ last'.crud.kind = "movie"
                 /\ last'.crud.id = m
                 /\ last'.crud.director = s
                 /\ last'.out = "return"
                 /\ last'.ret = last'.crud
                 /\ UNCHANGED <<stars, play>>]_vars

\* C1 witness: setDirector named a missing movie and a missing star and
\* answered "error_m"
C1_Witness ==
    /\ pc = "exit"
    /\ last.op = "update_movie_director"
    /\ last.args[1] \notin DOMAIN movies
    /\ last.args[2] \notin DOMAIN stars
    /\ DOMAIN movies # {}
    /\ last.crud = Str("error_m")

\* C2: in every reachable state each movie's director reference is null or
\* the id of a star that exists.
C2_DirectorExists ==
    \A m \in DOMAIN movies :
        movies[m].id_director = NULL \/ movies[m].id_director \in DOMAIN stars

\* C3: for an existing movie replaceActors(movieId, starIds) leaves the movie's
\* actor set equal to the ids of starIds that name existing stars and returns
\* the movie; for a missing movie it returns not-found and changes no play row.
C3_ReplaceActors ==
    [][Ended("update_movie_actors") =>
        LET m == last'.args[1]
            ids == last'.args[2]
            wanted == {s \in DOMAIN stars : \E i \in DOMAIN ids : ids[i] = s}
        IN  IF m \in DOMAIN movies
            THEN /\ {s \in DOMAIN stars' : <<m, s>> \in play'} = wanted
                 /\ last'.out = "return"
                 /\ last'.ret.kind = "movie"
                 /\ last'.ret.id = m
                 /\ last'.ret.actors = wanted
                 /\ UNCHANGED <<movies, stars>>
            ELSE /\ last'.crud = None
                 /\ last'.out = "HTTPException"
                 /\ play' = play]_vars

\* C3 witness: replaceActors on an existing movie was given an existing and a
\* missing star id and the movie's actors are the existing one alone
C3_Witness ==
    /\ pc = "exit"
    /\ last.op = "update_movie_actors"
    /\ last.args[1] \in DOMAIN movies
    /\ \E i \in DOMAIN last.args[2] : last.args[2][i] \notin DOMAIN stars
    /\ \E i \in DOMAIN last.args[2] : last.args[2][i] \in DOMAIN stars
    /\ last.ret.actors = Actors(DB, last.args[1])
    /\ Cardinality(last.ret.actors) = 1

\* C4: directorOf(movieId) never raises: it signals not-found when the movie
\* is missing or has no director, and returns the director star otherwise.
C4_DirectorOfSignalsNotFound ==
    (pc = "exit" /\ last.op = "get_director_by_id_movie") =>
        LET m == last.args[1]
        IN  IF m \in DOMAIN movies /\ movies[m].id_director # NULL
            THEN last.out = "return" /\ last.ret.kind = "star"
                 /\ last.ret.id = movies[m].id_director
            ELSE last.out = "HTTPException"

\* C5: a star-delete request for an existing star removes it and answers with
\* the deleted star's record; for a missing id it answers not-found (404) and
\* leaves the store unchanged.
C5_DeleteStarAnswer ==
    [][Ended("delete_star") =>
        LET s == last'.args[1]
        IN  IF s \in DOMAIN stars
            THEN /\ DOMAIN stars' = DOMAIN stars \ {s}
                 /\ last'.out = "return"
                 /\ last'.ret = StarVal(DB, s)
            ELSE /\ last'.out = "HTTPException"
                 /\ StoreUnchanged]_vars

\* C6: on every exit path of a request the session opened for it is released:
\* no session is open once its request has ended, and an open session is
\* eventually closed with its transaction committed or rolled back.
C6_SessionReleased ==
    /\ [](pc = "idle" => session # "open")
    /\ (session = "open") ~> (session = "closed" /\ tx \in {"committed", "rolledback"})

\* C6 witness: a request whose crud call raised a store failure has ended and
\* its session is closed, the transaction rolled back
C6_Witness ==
    /\ pc = "idle"
    /\ last.out = "IntegrityError"
    /\ session = "closed"
    /\ tx = "rolledback"

\* what statsByActor may answer now
StatsNow(min_count) == crud_get_stats_movie_by_actor(DB, min_count)

\* C7: after delete(movieId) of an existing movie no play row names that
\* movie, statsByActor counts for every star only the movies that remain
\* (count, first and last year), and delete returns the pre-deletion movie.
C7_DeleteMovie ==
    [][(Ended("delete_movie") /\ last'.args[1] \in DOMAIN movies) =>
        LET m == last'.args[1]
            left(s) == {k \in DOMAIN movies \ {m} : <<k, s>> \in play}
        IN  /\ m \notin DOMAIN movies'
            /\ \A r \in play' : r[1] # m
            /\ last'.out = "return"
            /\ last'.ret = MovieVal(DB, m)
            /\ \A c \in MinCounts : \A res \in StatsNow(c)' :
                 \A i \in DOMAIN res.val :
                    LET row == res.val[i]
                    IN  /\ row.movie_count = Cardinality(left(row.actor.id))
                        /\ \E k \in left(row.actor.id) : movies[k].year = row.year_first_movie
                        /\ \E k \in left(row.actor.id) : movies[k].year = row.year_last_movie
                        /\ \A k \in left(row.actor.id) :
                              /\ row.year_first_movie <= movies[k].year
                              /\ movies[k].year <= row.year_last_movie]_vars

\* C7, the part about statsByActor and the returned movie alone (it holds):
\* after delete(movieId) statsByActor counts only the movies that remain.
C7_StatsSkipDeletedMovie ==
    [][(Ended("delete_movie") /\ last'.args[1] \in DOMAIN movies) =>
        LET m == last'.args[1]
            left(s) == {k \in DOMAIN movies \ {m} : <<k, s>> \in play}
        IN  /\ m \notin DOMAIN movies'
            /\ last'.ret = MovieVal(DB, m)
            /\ \A c \in MinCounts : \A res \in StatsNow(c)' :
                 \A i \in DOMAIN res.val :
                    /\ res.val[i].movie_count = Cardinality(left(res.val[i].actor.id))
                    /\ res.val[i].movie_count >= c]_vars

\* C8: findByYearRange(min, max) returns null (never an empty list) when both
\* bounds are absent; with only min the movies of year >= min in ascending
\* year order; with only max the movies of year <= max in descending year
\* order; with both the movies of min <= year <= max in ascending year order.
C8_YearRange ==
    (pc = "exit" /\ last.op = "get_movies_by_range_year") =>
        LET lo == last.args[1]
            hi == last.args[2]
            wanted == {m \in DOMAIN movies :
                          /\ lo # NULL => movies[m].year >= lo
                          /\ hi # NULL => movies[m].year <= hi}
        IN  IF lo = NULL /\ hi = NULL
            THEN last.ret = None
            ELSE /\ last.ret.kind = "list"
                 /\ LET q == last.ret.val
                    IN  /\ Len(q) = Cardinality(wanted)
                        /\ {q[i].id : i \in DOMAIN q} = wanted
                        /\ \A i \in DOMAIN q : q[i] = MovieVal(DB, q[i].id)
                        /\ \A i, j \in DOMAIN q : i < j =>
                              IF lo = NULL THEN q[i].year >= q[j].year
                                           ELSE q[i].year <= q[j].year
                 /\ ((lo # NULL /\ hi # NULL /\ lo > hi) => last.ret.val = <<>>)

\* C8 witness: a two-sided range whose ends are both years of movies was
\* answered with three movies, the first older than the last
C8_Witness ==
    /\ pc = "exit"
    /\ last.op = "get_movies_by_range_year"
    /\ last.args = <<1999, 2001>>
    /\ last.ret.kind = "list"
    /\ Len(last.ret.val) = 3
    /\ last.ret.val[1].year = 1999
    /\ last.ret.val[3].year = 2001

\* what get(id) answers now
GetMovieNow(id) == crud_get_movie(DB, id).ret

\* C9: for an existing movie update(id, title, year, duration) followed by
\* get(id) returns the new title, year and duration with the director and the
\* actor set as before, and every other movie and star is unchanged; for a
\* missing id update returns not-found and changes nothing.
C9_UpdateMovie ==
    [][Ended("update_movie") =>
        \A id \in MovieIds : last'.args[1] = id =>
            IF id \in DOMAIN movies
            THEN /\ GetMovieNow(id)'.kind = "movie"
                 /\ GetMovieNow(id)'.id = id
                 /\ GetMovieNow(id)'.title = last'.args[2]
                 /\ GetMovieNow(id)'.year = last'.args[3]
                 /\ GetMovieNow(id)'.duration = last'.args[4]
                 /\ GetMovieNow(id)'.id_director = movies[id].id_director
                 /\ GetMovieNow(id)'.director = Director(DB, id)
                 /\ GetMovieNow(id)'.actors = Actors(DB, id)
                 /\ DOMAIN movies' = DOMAIN movies
                 /\ \A k \in DOMAIN movies \ {id} : movies'[k] = movies[k]
                 /\ UNCHANGED <<stars, play>>
            ELSE last'.crud = None /\ StoreUnchanged]_vars

\* C9 witness: a movie with a director and an actor got a new title, year and
\* duration beside another movie
C9_Witness ==
    /\ pc = "exit"
    /\ last.op = "update_movie"
    /\ last.args[1] \in DOMAIN movies
    /\ last.args[2] = "t2"
    /\ last.ret.title = "t2"
    /\ last.ret.duration = 90
    /\ last.ret.director # NULL
    /\ last.ret.actors # {}
    /\ \E k \in DOMAIN movies : k # last.args[1] /\ movies[k].title = "t1"

\* C10: countByYear() returns one row for each year that has a movie, in
\* strictly ascending year order; movieCount is the number of movies of the
\* year, and minDuration, maxDuration and avgDuration are the minimum, the
\* maximum and the mean of the durations the movies of the year have.
C10_CountByYear ==
    (pc = "exit" /\ last.op = "read_count_movies_by_year") =>
        LET rows == last.ret.val
            years == {movies[m].year : m \in DOMAIN movies}
        IN  /\ Len(rows) = Cardinality(years)
            /\ \A i \in DOMAIN rows : rows[i].year \in years
            /\ \A i, j \in DOMAIN rows : i < j => rows[i].year < rows[j].year
            /\ \A i \in DOMAIN rows :
                 LET of == {m \in DOMAIN movies : movies[m].year = rows[i].year}
                     with == {m \in of : movies[m].duration # NULL}
                 IN  /\ rows[i].movie_count = Cardinality(of)
                     /\ with # {} =>
                          /\ \E m \in with : movies[m].duration = rows[i].min_duration
                          /\ \E m \in with : movies[m].duration = rows[i].max_duration
                          /\ \A m \in with :
                                /\ rows[i].min_duration <= movies[m].duration
                                /\ movies[m].duration <= rows[i].max_duration
                          /\ rows[i].avg_duration[1] * Cardinality(with) =
                             rows[i].avg_duration[2] *
                                SumOf({<<m, movies[m].duration>> : m \in with})

\* C10 witness: a year of three movies, of durations 90, 110 and none, is
\* counted 3 with minimum 90, maximum 110 and mean 100
C10_Witness ==
    /\ pc = "exit"
    /\ last.op = "read_count_movies_by_year"
    /\ \E i \in DOMAIN last.ret.val :
          /\ last.ret.val[i].movie_count = 3
          /\ last.ret.val[i].min_duration = 90
          /\ last.ret.val[i].max_duration = 110
          /\ last.ret.val[i].avg_duration = <<100, 1>>
    /\ \E m \in DOMAIN movies : movies[m].duration = NULL

\* C11: after any sequence of create, update and delete operations get(id)
\* returns a movie whose id is the requested id if and only if a movie with
\* that id exists now (created and not since deleted), returns not-found
\* otherwise, and never changes the store.
C11_GetMovie ==
    [][Ended("read_movie") =>
        LET id == last'.args[1]
        IN  /\ StoreUnchanged
            /\ IF id \in DOMAIN movies
               THEN /\ last'.out = "return"
                    /\ last'.crud.kind = "movie"
                    /\ last'.crud.id = id
                    /\ last'.ret = MovieVal(DB, id)
               ELSE /\ last'.crud = None
                    /\ last'.out = "HTTPException"]_vars

\* C11 witness: get of an id that was created and since deleted answered
\* not-found while another movie exists
C11_Witness ==
    /\ pc = "exit"
    /\ last.op = "read_movie"
    /\ last.args[1] < nextMovieId
    /\ last.args[1] \notin DOMAIN movies
    /\ DOMAIN movies # {}
    /\ last.crud = None
    /\ last.out = "HTTPException"

============================================================================
